---- MODULE Spec2Model ----
(***************************************************************************)
(* A model of src/main.py: decode_base64url, extract_email_fields (with    *)
(* its nested walk_parts) and the try/except block that ends the script.   *)
(*                                                                         *)
(* Representation.  A Python str on whose characters the code computes     *)
(* (base64 data, header names, decoded bodies) is a sequence of code       *)
(* points.  A str the code only copies or compares whole (header values,   *)
(* MIME types, exception names) is a TLA+ string.  None is the one-element *)
(* sequence <<-1>>, which is no string since -1 is no code point.  A JSON  *)
(* object is a function whose domain is the set of keys it carries, so an  *)
(* absent key is a key outside the DOMAIN.  A JSON null is None, wherever  *)
(* the code reads a value: payload, headers, a header, name, body, data,   *)
(* parts, a part, mimeType.  Values of another wrong JSON type (a number   *)
(* for a str, a str for a list) are not modelled.                          *)
(***************************************************************************)
EXTENDS Integers, Sequences, FiniteSets, TLC

VARIABLES
    response,   \* the bytes res.read() returned, by what they hold
    pc,         \* position of the script
    exc,        \* the exception in flight or handled, "none" if none
    hi,         \* index of the header the for loop of line 24 is at
    subject, sender, body,
    stack,      \* the walk_parts activations, innermost last
    ret,        \* the value a walk_parts activation has just returned
    visited,    \* paths of the parts the loop of line 39 has examined, in order
    outcome,    \* which print statement ran
    printed,    \* what it printed
    d_src,      \* decoder run: where the input came from
    d_in,       \* decoder run: the argument data
    d_pc,       \* decoder run: position inside decode_base64url
    d_padded,   \* decoder run: data after line 11
    d_bytes,    \* decoder run: the bytes urlsafe_b64decode returned
    d_result,   \* decoder run: the returned str
    d_exc,      \* decoder run: the exception raised, "none" if none
    d_calls     \* decoder run: number of calls of urlsafe_b64decode

svars == <<response, pc, exc, hi, subject, sender, body, stack, ret, visited,
           outcome, printed>>
dvars == <<d_src, d_in, d_pc, d_padded, d_bytes, d_result, d_exc, d_calls>>
vars == <<svars, dvars>>

(***************************************************************************)
(* Bounds of the model.                                                    *)
(***************************************************************************)
MaxDataLen == 4     \* longest raw argument of a decoder run
MaxTextLen == 3     \* longest text of a round trip
MaxHeaders == 2     \* longest header list
MaxNodes == 3       \* most parts in a parts tree

(***************************************************************************)
(* Python values.                                                          *)
(***************************************************************************)
None == <<-1>>
EmptyStr == <<>>
EmptyObj == [k \in {} |-> 0]

\* x is None, for x of any type (a list of objects cannot be compared with
\* None by =)
IsNone(x) == ToString(x) = ToString(None)

\* bool(x) for x a str, a list or None
Truthy_NoneOnly(x) == ~IsNone(x)
Truthy(x) == ~IsNone(x) /\ Len(x) > 0

\* dict.get(key, default)
Get(obj, key, default) == IF key \in DOMAIN obj THEN obj[key] ELSE default

\* str.lower() on ASCII text
Lower(s) == [i \in 1..Len(s) |-> IF s[i] \in 65..90 THEN s[i] + 32 ELSE s[i]]

(***************************************************************************)
(* decode_base64url, lines 5-12.                                           *)
(***************************************************************************)
PadChar == 61   \* "="

\* table_a2b_base64 behind urlsafe_b64decode: "-" and "_" are translated to
\* "+" and "/" first, and "+" and "/" themselves stay valid.
B64Val_NoUrlSafe(c) ==
    IF c \in 65..90 THEN c - 65
    ELSE IF c \in 97..122 THEN c - 71
    ELSE IF c \in 48..57 THEN c + 4
    ELSE IF c = 43 THEN 62
    ELSE IF c = 47 THEN 63
    ELSE 64
B64Val(c) ==
    IF c \in 65..90 THEN c - 65
    ELSE IF c \in 97..122 THEN c - 71
    ELSE IF c \in 48..57 THEN c + 4
    ELSE IF c = 43 \/ c = 45 THEN 62
    ELSE IF c = 47 \/ c = 95 THEN 63
    ELSE 64

\* lines 9-11: the number of "=" appended
PadCount_Missing(n) == n % 4
PadCount(n) == LET missing_padding == n % 4
               IN IF missing_padding # 0 THEN 4 - missing_padding ELSE 0

Pad(data) == data \o [i \in 1..PadCount(Len(data)) |-> PadChar]

\* binascii.a2b_base64 in its default, non-strict mode: characters outside
\* the alphabet are skipped, a pad run that completes a quad ends the
\* input, and leftover sextets are an error.
RECURSIVE A2B(_, _, _, _, _, _)
A2B(s, i, quad_pos, pads, leftchar, out) ==
    IF i > Len(s)
    THEN IF quad_pos # 0
         THEN [exc |-> "binascii.Error", bytes |-> <<>>]
         ELSE [exc |-> "none", bytes |-> out]
    ELSE IF s[i] = PadChar
    THEN IF quad_pos >= 2 /\ quad_pos + pads + 1 >= 4
         THEN [exc |-> "none", bytes |-> out]
         ELSE A2B(s, i + 1, quad_pos,
                  IF quad_pos >= 2 THEN pads + 1 ELSE pads, leftchar, out)
    ELSE IF B64Val(s[i]) >= 64
    THEN A2B(s, i + 1, quad_pos, pads, leftchar, out)
    ELSE LET v == B64Val(s[i])
         IN CASE quad_pos = 0 -> A2B(s, i + 1, 1, 0, v, out)
              [] quad_pos = 1 ->
                   A2B(s, i + 1, 2, 0, v % 16, Append(out, leftchar * 4 + v \div 16))
              [] quad_pos = 2 ->
                   A2B(s, i + 1, 3, 0, v % 4, Append(out, leftchar * 16 + v \div 4))
              [] OTHER ->
                   A2B(s, i + 1, 0, 0, 0, Append(out, leftchar * 64 + v))

\* base64.urlsafe_b64decode on a str: a non-ASCII character is a ValueError
UrlsafeB64Decode(s) ==
    IF \E i \in 1..Len(s) : s[i] > 127
    THEN [exc |-> "ValueError", bytes |-> <<>>]
    ELSE A2B(s, 1, 0, 0, 0, <<>>)

\* The length of the well-formed UTF-8 sequence that starts at b[i], 0 if
\* there is none.
IsCont(b, i, lo, hi_) == i <= Len(b) /\ b[i] >= lo /\ b[i] <= hi_
Utf8Len(b, i) ==
    LET c == b[i]
        lo2 == IF c = 224 THEN 160 ELSE IF c = 240 THEN 144 ELSE 128
        hi2 == IF c = 237 THEN 159 ELSE IF c = 244 THEN 143 ELSE 191
    IN IF c < 128 THEN 1
       ELSE IF c \in 194..223
       THEN IF IsCont(b, i + 1, 128, 191) THEN 2 ELSE 0
       ELSE IF c \in 224..239
       THEN IF IsCont(b, i + 1, lo2, hi2) /\ IsCont(b, i + 2, 128, 191)
            THEN 3 ELSE 0
       ELSE IF c \in 240..244
       THEN IF /\ IsCont(b, i + 1, lo2, hi2) /\ IsCont(b, i + 2, 128, 191)
               /\ IsCont(b, i + 3, 128, 191)
            THEN 4 ELSE 0
       ELSE 0

Utf8Char(b, i, n) ==
    CASE n = 1 -> b[i]
      [] n = 2 -> (b[i] - 192) * 64 + (b[i + 1] - 128)
      [] n = 3 -> (b[i] - 224) * 4096 + (b[i + 1] - 128) * 64 + (b[i + 2] - 128)
      [] OTHER -> (b[i] - 240) * 262144 + (b[i + 1] - 128) * 4096
                    + (b[i + 2] - 128) * 64 + (b[i + 3] - 128)

\* bytes.decode("utf-8", errors="ignore"): well-formed sequences are kept,
\* every other byte is dropped.
RECURSIVE Utf8Ignore(_, _, _)
Utf8Ignore(b, i, out) ==
    IF i > Len(b) THEN out
    ELSE LET n == Utf8Len(b, i)
         IN IF n = 0 THEN Utf8Ignore(b, i + 1, out)
            ELSE Utf8Ignore(b, i + n, Append(out, Utf8Char(b, i, n)))

\* decode_base64url as a whole: the exception it raises, or the str it returns
decode_base64url(data) ==
    IF ~Truthy(data) THEN [exc |-> "none", str |-> EmptyStr]
    ELSE LET r == UrlsafeB64Decode(Pad(data))
         IN IF r.exc # "none" THEN [exc |-> r.exc, str |-> EmptyStr]
            ELSE [exc |-> "none", str |-> Utf8Ignore(r.bytes, 1, <<>>)]

(***************************************************************************)
(* extract_email_fields, lines 15-55.                                      *)
(***************************************************************************)
SubjectKey == <<115, 117, 98, 106, 101, 99, 116>>   \* "subject"
FromKey == <<102, 114, 111, 109>>                     \* "from"

Payload(message) == Get(message, "payload", EmptyObj)
\* lines 33 and 41: x.get("body", {}), for a payload or a part x
Body(x) == Get(x, "body", EmptyObj)
Headers(payload) == Get(payload, "headers", <<>>)
HeaderName(h) == Get(h, "name", EmptyStr)
HeaderValue(h) == Get(h, "value", "")

\* lines 25-29: subject and sender after header h
NextSubject_FirstWins(cur, h) ==
    IF Lower(HeaderName(h)) = SubjectKey /\ cur = "" THEN HeaderValue(h) ELSE cur
NextSubject(cur, h) ==
    IF Lower(HeaderName(h)) = SubjectKey THEN HeaderValue(h) ELSE cur
NextSender(cur, h) ==
    IF Lower(HeaderName(h)) = SubjectKey THEN cur
    ELSE IF Lower(HeaderName(h)) = FromKey THEN HeaderValue(h)
    ELSE cur

\* line 33: payload.get("body", {}).get("data")
InlineData(payload) == Get(Body(payload), "data", None)
UseInlineBody_UnlessParts(payload) ==
    Truthy(InlineData(payload)) /\ "parts" \notin DOMAIN payload
UseInlineBody(payload) == Truthy(InlineData(payload))

\* lines 40-41
PartMime_DefaultPlain(part) == Get(part, "mimeType", "text/plain")
PartMime(part) == Get(part, "mimeType", "")
PartData(part) == Get(Body(part), "data", None)
\* lines 40-41: None has no get(), be it the part or its body
PartFails(part) == IF IsNone(part) THEN TRUE ELSE IsNone(Body(part))
\* line 43
Matches(part) ==
    /\ ~IsNone(PartMime(part))
    /\ PartMime(part) \in {"text/plain", "text/html"}
    /\ Truthy(PartData(part))
\* line 47: if part.get("parts")
HasParts(part) == Truthy(Get(part, "parts", None))
\* line 49: if result
PropagateResult_Always(result) == TRUE
PropagateResult(result) == Truthy(result)

\* line 72: except json.JSONDecodeError
IsJSONDecodeError_AnyValueError(e) ==
    e \in {"JSONDecodeError", "UnicodeDecodeError", "binascii.Error", "ValueError"}
IsJSONDecodeError(e) == e = "JSONDecodeError"

(***************************************************************************)
(* The inputs: responses of the mail provider.                             *)
(***************************************************************************)
DataHi == <<83, 71, 107>>                            \* "SGk", decodes to "Hi"
DataH == <<83, 71>>                                  \* "SG", decodes to "H"
DataHello == <<83, 71, 86, 115, 98, 71, 56>>         \* "SGVsbG8", "Hello"
DataBoldHi == <<80, 71, 73, 43, 83, 71, 107, 56, 76, 50, 73, 43>>  \* "PGI+SGk8L2I+"
DataFF == <<95, 119>>                                \* "_w", decodes to ""
DataBad == <<83>>                                    \* "S", not base64

\* part labels of the enumerated trees
CoreLabels ==
    { [mimeType |-> "text/plain", body |-> [data |-> DataHi]],
      [mimeType |-> "text/html", body |-> [data |-> DataH]],
      [mimeType |-> "text/plain", body |-> [data |-> DataFF]],
      [mimeType |-> "text/plain", body |-> [data |-> DataBad]],
      [mimeType |-> "multipart/alternative"] }

MkPart(label, f) == IF f = <<>> THEN label ELSE label @@ [parts |-> f]

\* the parts lists (forests) of exactly n parts in all
RECURSIVE Forests(_)
Trees(n) == {MkPart(l, f) : l \in CoreLabels, f \in Forests(n - 1)}
Forests(n) ==
    IF n = 0 THEN {<<>>}
    ELSE UNION {{<<t>> \o rest : t \in Trees(j), rest \in Forests(n - j)} : j \in 1..n}
AllForests == UNION {Forests(n) : n \in 0..MaxNodes}

SpecHeaders ==
    << [name |-> <<83, 117, 98, 106, 101, 99, 116>>, value |-> "Hi"],
       [name |-> FromKey, value |-> "a@b.com"] >>

TreeMessages ==
    {[payload |-> [headers |-> SpecHeaders, parts |-> f]] : f \in AllForests}
    \cup {[payload |-> [headers |-> SpecHeaders, body |-> [data |-> DataHello],
                        parts |-> f]] : f \in AllForests}

HeaderNames ==
    { SubjectKey,
      <<83, 117, 98, 106, 101, 99, 116>>,       \* "Subject"
      <<83, 85, 66, 74, 69, 67, 84>>,           \* "SUBJECT"
      FromKey,
      <<70, 114, 111, 109>>,                    \* "From"
      <<116, 111>>,                             \* "to"
      None }
HeaderChoices ==
    {[name |-> n, value |-> v] : n \in HeaderNames, v \in {"v1", "v2"}}
    \cup {[name |-> SubjectKey], [name |-> FromKey], [value |-> "v1"], EmptyObj}
HeaderSeqs == UNION {[1..n -> HeaderChoices] : n \in 0..MaxHeaders}
HeaderMessages ==
    {[payload |-> [headers |-> hs, body |-> [data |-> DataHi]]] : hs \in HeaderSeqs}
    \cup {[payload |-> [headers |-> hs]] : hs \in HeaderSeqs}

\* parts and bodies with fields absent or empty
EdgeParts ==
    CoreLabels \cup
    { EmptyObj,
      [mimeType |-> "text/plain"],
      [mimeType |-> "text/html", body |-> EmptyObj],
      [mimeType |-> "text/plain", body |-> [data |-> EmptyStr]],
      [mimeType |-> "text/plain", body |-> [data |-> None]],
      [body |-> [data |-> DataHi]],
      [mimeType |-> "image/png", body |-> [data |-> DataHi]],
      [mimeType |-> "TEXT/PLAIN", body |-> [data |-> DataHi]],
      [mimeType |-> "text/html", body |-> [data |-> DataBoldHi]],
      [mimeType |-> "multipart/mixed", parts |-> <<>>],
      [parts |-> <<[body |-> [data |-> DataHi]]>>],
      [parts |-> <<[mimeType |-> "text/html", body |-> [data |-> DataBoldHi]]>>],
      [mimeType |-> "text/plain", body |-> [data |-> DataHi],
       parts |-> <<[mimeType |-> "text/html", body |-> [data |-> DataH]]>>] }
EdgeBodies ==
    { EmptyObj, [data |-> EmptyStr], [data |-> None], [data |-> DataFF],
      [data |-> DataBad], [data |-> DataHello] }
EdgeMessages ==
    { EmptyObj, [payload |-> EmptyObj],
      [payload |-> [headers |-> <<>>, parts |-> <<>>]] }
    \cup {[payload |-> [parts |-> <<p>>]] : p \in EdgeParts}
    \cup {[payload |-> [parts |-> <<p, q>>]] : p \in EdgeParts, q \in EdgeParts}
    \cup {[payload |-> [body |-> b]] : b \in EdgeBodies}
    \cup {[payload |-> [body |-> b, parts |-> <<p>>]] : b \in EdgeBodies, p \in EdgeParts}

Messages == TreeMessages \cup HeaderMessages \cup EdgeMessages

\* Parts and payloads with a null where the code reads a value.  They are
\* kept in sequences: a set cannot hold a list of objects next to None.
NullParts ==
    << None,
       [body |-> None],
       [mimeType |-> "image/png", body |-> None],
       [mimeType |-> "text/plain", body |-> None],
       [mimeType |-> None, body |-> None],
       [mimeType |-> "multipart/alternative", body |-> None,
        parts |-> <<[mimeType |-> "text/plain", body |-> [data |-> DataHi]]>>],
       [mimeType |-> "multipart/related", parts |-> None],
       [mimeType |-> None, body |-> [data |-> DataHello]] >>
\* the parts lists that hold the null part n and the part q
NullForests(n, q) ==
    << <<n>>, <<n, q>>, <<q, n>>,
       <<[mimeType |-> "multipart/mixed", parts |-> <<n>>], q>> >>
NullPayloads ==
    << None,
       [parts |-> None],
       [headers |-> None],
       [headers |-> None, body |-> [data |-> DataHi]],
       [headers |-> <<None>>],
       [headers |-> <<[name |-> SubjectKey, value |-> "v1"], None>>],
       [body |-> None],
       [body |-> None,
        parts |-> <<[mimeType |-> "text/plain", body |-> [data |-> DataHi]]>>],
       [body |-> [data |-> DataHi], parts |-> None],
       [headers |-> SpecHeaders, body |-> [data |-> DataHello],
        parts |-> <<[mimeType |-> "text/plain", body |-> None]>>] >>

ObjectResponse(m) == [kind |-> "object", text |-> "{...}", json |-> TRUE, message |-> m]

\* What res.read() can hold.  kind is what lines 69-70 make of the bytes:
\* bytes that are not UTF-8, text that json.loads rejects, text that
\* json.loads gives up on (an integer of more digits than int() converts,
\* arrays nested deeper than the recursion limit), text it parses to a
\* value that is no object, text it parses to a message object.  json tells
\* whether the text is JSON by the grammar of RFC 8259; json.loads also
\* parses the constants NaN, Infinity and -Infinity, which are not.
Responses ==
    { [kind |-> "badutf8", text |-> "", json |-> FALSE, message |-> EmptyObj],
      [kind |-> "badjson", text |-> "{oops", json |-> FALSE, message |-> EmptyObj],
      [kind |-> "hugeint", text |-> "{...}", json |-> TRUE, message |-> EmptyObj],
      [kind |-> "deepjson", text |-> "{...}", json |-> TRUE, message |-> EmptyObj],
      [kind |-> "nonobject", text |-> "[]", json |-> TRUE, message |-> EmptyObj],
      [kind |-> "nonobject", text |-> "NaN", json |-> FALSE, message |-> EmptyObj],
      [kind |-> "nonobject", text |-> "-Infinity", json |-> FALSE,
       message |-> EmptyObj],
      [kind |-> "object", text |-> "{\"x\": NaN}", json |-> FALSE,
       message |-> [x |-> "NaN"]],
      [kind |-> "object", text |-> "{\"payload\": {\"sizeEstimate\": Infinity}}",
       json |-> FALSE, message |-> [payload |-> [sizeEstimate |-> "Infinity"]]] }
    \cup {ObjectResponse(m) : m \in Messages}

(***************************************************************************)
(* The script, lines 66-75, with extract_email_fields step by step.        *)
(***************************************************************************)
DecoderIdle ==
    /\ d_src = [kind |-> "idle", text |-> EmptyStr, stripped |-> FALSE]
    /\ d_in = None /\ d_pc = "idle" /\ d_padded = EmptyStr /\ d_bytes = <<>>
    /\ d_result = EmptyStr /\ d_exc = "none" /\ d_calls = 0

Init ==
    /\ \/ response \in Responses
       \/ \E i \in DOMAIN NullPayloads :
             response = ObjectResponse([payload |-> NullPayloads[i]])
       \/ \E i \in DOMAIN NullParts, q \in EdgeParts, j \in 1..4 :
             response = ObjectResponse(
                 [payload |-> [parts |-> NullForests(NullParts[i], q)[j]]])
    /\ pc = "read" /\ exc = "none" /\ hi = 0
    /\ subject = "" /\ sender = "" /\ body = EmptyStr
    /\ stack = <<>> /\ ret = EmptyStr /\ visited = <<>>
    /\ outcome = "none" /\ printed = <<>>
    /\ DecoderIdle

CurPayload == Payload(response.message)
CurHeaders == Headers(CurPayload)
Top == stack[Len(stack)]
Pop == SubSeq(stack, 1, Len(stack) - 1)
CurPart == Top.parts[Top.i]
CurPath == Append(Top.path, Top.i)
Advance == [stack EXCEPT ![Len(stack)].i = @ + 1]

\* an exception leaves every activation and reaches the except clauses
Raise(e) ==
    /\ pc' = "raised" /\ exc' = e /\ stack' = <<>>
    /\ UNCHANGED <<response, hi, subject, sender, body, ret, outcome, printed>>

\* line 69: data.decode("utf-8")
DecodeResponse ==
    /\ pc = "read"
    /\ IF response.kind = "badutf8"
       THEN Raise("UnicodeDecodeError")
       ELSE /\ pc' = "loads"
            /\ UNCHANGED <<response, exc, hi, subject, sender, body, stack, ret,
                           outcome, printed>>
    /\ UNCHANGED <<visited, dvars>>

\* line 69: json.loads; text that is JSON by its grammar can still make
\* it raise, and what it raises then is no JSONDecodeError
JsonLoads ==
    /\ pc = "loads"
    /\ IF response.kind = "badjson"
       THEN Raise("JSONDecodeError")
       ELSE IF response.kind = "hugeint"
       THEN Raise("ValueError")
       ELSE IF response.kind = "deepjson"
       THEN Raise("RecursionError")
       ELSE /\ pc' = "extract"
            /\ UNCHANGED <<response, exc, hi, subject, sender, body, stack, ret,
                           outcome, printed>>
    /\ UNCHANGED <<visited, dvars>>

\* lines 16-24: message.get fails on a JSON value that is no object,
\* payload.get on a payload that is None, and the for loop of line 24 on
\* headers that are None
ExtractStart ==
    /\ pc = "extract"
    /\ IF response.kind = "nonobject"
       THEN Raise("AttributeError")
       ELSE IF IsNone(Payload(response.message))
       THEN Raise("AttributeError")
       ELSE IF IsNone(Headers(Payload(response.message)))
       THEN Raise("TypeError")
       ELSE /\ pc' = "headers" /\ hi' = 1
            /\ subject' = "" /\ sender' = "" /\ body' = EmptyStr
            /\ UNCHANGED <<response, exc, stack, ret, outcome, printed>>
    /\ UNCHANGED <<visited, dvars>>

\* lines 24-29: one iteration; None has no get() and no lower()
HeaderStep ==
    /\ pc = "headers" /\ hi <= Len(CurHeaders)
    /\ IF IsNone(CurHeaders[hi]) \/ IsNone(HeaderName(CurHeaders[hi]))
       THEN Raise("AttributeError")
       ELSE /\ subject' = NextSubject(subject, CurHeaders[hi])
            /\ sender' = NextSender(sender, CurHeaders[hi])
            /\ hi' = hi + 1
            /\ UNCHANGED <<response, pc, exc, body, stack, ret, outcome, printed>>
    /\ UNCHANGED <<visited, dvars>>

\* lines 33-35; line 33 fails on a body that is None
InlineBody ==
    /\ pc = "headers" /\ hi > Len(CurHeaders)
    /\ IF IsNone(Body(CurPayload)) THEN TRUE ELSE UseInlineBody(CurPayload)
    /\ IF IsNone(Body(CurPayload))
       THEN Raise("AttributeError")
       ELSE LET r == decode_base64url(CurPayload["body"]["data"])
            IN IF r.exc # "none"
               THEN Raise(r.exc)
               ELSE /\ body' = r.str /\ pc' = "print"
                    /\ UNCHANGED <<response, exc, hi, subject, sender, stack, ret,
                                   outcome, printed>>
    /\ UNCHANGED <<visited, dvars>>

\* line 53: the call walk_parts(payload.get("parts", [])); the for loop of
\* line 39 fails on parts that are None
StartWalk ==
    /\ pc = "headers" /\ hi > Len(CurHeaders)
    /\ IF IsNone(Body(CurPayload)) THEN FALSE ELSE ~UseInlineBody(CurPayload)
    /\ IF IsNone(Get(CurPayload, "parts", <<>>))
       THEN Raise("TypeError")
       ELSE /\ stack' = <<[parts |-> Get(CurPayload, "parts", <<>>), i |-> 1,
                           path |-> <<>>]>>
            /\ pc' = "walk"
            /\ UNCHANGED <<response, exc, hi, subject, sender, body, ret,
                           outcome, printed>>
    /\ UNCHANGED <<visited, dvars>>

\* lines 40-41: part.get fails on a part that is None, and
\* part.get("body", {}).get on a body that is None
WalkFail ==
    /\ pc = "walk" /\ Top.i <= Len(Top.parts)
    /\ PartFails(CurPart)
    /\ visited' = IF IsNone(CurPart) THEN visited ELSE Append(visited, CurPath)
    /\ Raise("AttributeError")
    /\ UNCHANGED dvars

\* lines 40-44: the part matches, its decoded data is returned
WalkMatch ==
    /\ pc = "walk" /\ Top.i <= Len(Top.parts)
    /\ ~PartFails(CurPart) /\ Matches(CurPart)
    /\ visited' = Append(visited, CurPath)
    /\ LET r == decode_base64url(PartData(CurPart))
       IN IF r.exc # "none"
          THEN Raise(r.exc)
          ELSE /\ ret' = r.str /\ stack' = Pop /\ pc' = "return"
               /\ UNCHANGED <<response, exc, hi, subject, sender, body,
                              outcome, printed>>
    /\ UNCHANGED dvars

\* lines 40-48: no match, nested parts: the recursive call
WalkRecurse ==
    /\ pc = "walk" /\ Top.i <= Len(Top.parts)
    /\ ~PartFails(CurPart) /\ ~Matches(CurPart) /\ HasParts(CurPart)
    /\ visited' = Append(visited, CurPath)
    /\ stack' = Append(stack, [parts |-> CurPart["parts"], i |-> 1, path |-> CurPath])
    /\ UNCHANGED <<response, pc, exc, hi, subject, sender, body, ret,
                   outcome, printed, dvars>>

\* lines 40-47: no match, no nested parts: on to the next part
WalkNext ==
    /\ pc = "walk" /\ Top.i <= Len(Top.parts)
    /\ ~PartFails(CurPart) /\ ~Matches(CurPart) /\ ~HasParts(CurPart)
    /\ visited' = Append(visited, CurPath)
    /\ stack' = Advance
    /\ UNCHANGED <<response, pc, exc, hi, subject, sender, body, ret,
                   outcome, printed, dvars>>

\* line 51: the loop is over, return ""
WalkExhausted ==
    /\ pc = "walk" /\ Top.i > Len(Top.parts)
    /\ ret' = EmptyStr /\ stack' = Pop /\ pc' = "return"
    /\ UNCHANGED <<response, exc, hi, subject, sender, body, visited,
                   outcome, printed, dvars>>

\* lines 48-50: the recursive call has returned into its caller
WalkReturn ==
    /\ pc = "return" /\ stack # <<>>
    /\ IF PropagateResult(ret)
       THEN stack' = Pop /\ pc' = "return"
       ELSE stack' = Advance /\ pc' = "walk"
    /\ UNCHANGED <<response, exc, hi, subject, sender, body, ret, visited,
                   outcome, printed, dvars>>

\* lines 53-55: the outermost call has returned
WalkDone ==
    /\ pc = "return" /\ stack = <<>>
    /\ body' = ret /\ pc' = "print"
    /\ UNCHANGED <<response, exc, hi, subject, sender, stack, ret, visited,
                   outcome, printed, dvars>>

\* line 71
PrintFields ==
    /\ pc = "print"
    /\ outcome' = "printed" /\ printed' = <<sender, subject, body>>
    /\ pc' = "done"
    /\ UNCHANGED <<response, exc, hi, subject, sender, body, stack, ret, visited,
                   dvars>>

\* lines 72-73
ExceptJSONDecodeError ==
    /\ pc = "raised" /\ IsJSONDecodeError(exc)
    /\ outcome' = "json_error" /\ printed' = <<response.text>>
    /\ pc' = "done"
    /\ UNCHANGED <<response, exc, hi, subject, sender, body, stack, ret, visited,
                   dvars>>

\* lines 74-75
ExceptException ==
    /\ pc = "raised" /\ ~IsJSONDecodeError(exc)
    /\ outcome' = "generic_error" /\ printed' = <<exc>>
    /\ pc' = "done"
    /\ UNCHANGED <<response, exc, hi, subject, sender, body, stack, ret, visited,
                   dvars>>

Next ==
    \/ DecodeResponse \/ JsonLoads \/ ExtractStart \/ HeaderStep
    \/ InlineBody \/ StartWalk
    \/ WalkFail \/ WalkMatch \/ WalkRecurse \/ WalkNext \/ WalkExhausted
    \/ WalkReturn \/ WalkDone
    \/ PrintFields \/ ExceptJSONDecodeError \/ ExceptException

Spec == Init /\ [][Next]_vars

(***************************************************************************)
(* decode_base64url on its own, one statement per step.                    *)
(***************************************************************************)
\* str.encode("utf-8") of one code point
Utf8Bytes(c) ==
    IF c < 128 THEN <<c>>
    ELSE IF c < 2048 THEN <<192 + c \div 64, 128 + (c % 64)>>
    ELSE IF c < 65536
    THEN <<224 + c \div 4096, 128 + ((c \div 64) % 64), 128 + (c % 64)>>
    ELSE <<240 + c \div 262144, 128 + ((c \div 4096) % 64),
           128 + ((c \div 64) % 64), 128 + (c % 64)>>
RECURSIVE Utf8Encode(_)
Utf8Encode(text) ==
    IF text = <<>> THEN <<>> ELSE Utf8Bytes(Head(text)) \o Utf8Encode(Tail(text))

\* the URL-safe base64 alphabet
B64Char(v) ==
    IF v < 26 THEN 65 + v
    ELSE IF v < 52 THEN 71 + v
    ELSE IF v < 62 THEN v - 4
    ELSE IF v = 62 THEN 45
    ELSE 95
\* base64.urlsafe_b64encode: three bytes to four characters, "=" padded
RECURSIVE B64Encode(_)
B64Encode(b) ==
    IF Len(b) = 0 THEN <<>>
    ELSE IF Len(b) = 1
    THEN <<B64Char(b[1] \div 4), B64Char((b[1] % 4) * 16), PadChar, PadChar>>
    ELSE IF Len(b) = 2
    THEN <<B64Char(b[1] \div 4), B64Char((b[1] % 4) * 16 + b[2] \div 16),
           B64Char((b[2] % 16) * 4), PadChar>>
    ELSE <<B64Char(b[1] \div 4), B64Char((b[1] % 4) * 16 + b[2] \div 16),
           B64Char((b[2] % 16) * 4 + b[3] \div 64), B64Char(b[3] % 64)>>
         \o B64Encode(SubSeq(b, 4, Len(b)))
\* the provider's convention: the trailing "=" removed
RECURSIVE StripPad(_)
StripPad(s) ==
    IF Len(s) > 0 /\ s[Len(s)] = PadChar THEN StripPad(SubSeq(s, 1, Len(s) - 1)) ELSE s

\* "S" "G" "k" "_" "w" "=" "!"
RawAlphabet == {83, 71, 107, 95, 119, PadChar, 33}
RawInputs ==
    UNION {[1..n -> RawAlphabet] : n \in 0..MaxDataLen}
    \cup {None, <<83, 233>>, DataHello, DataBoldHi}
\* "H" "e-acute" "euro sign" "grinning face"
TextAlphabet == {72, 233, 8364, 128512}
Texts == UNION {[1..n -> TextAlphabet] : n \in 0..MaxTextLen}

DecodeInit ==
    /\ \/ /\ d_in \in RawInputs
          /\ d_src = [kind |-> "raw", text |-> EmptyStr, stripped |-> FALSE]
       \/ \E t \in Texts :
             \/ /\ d_in = B64Encode(Utf8Encode(t))
                /\ d_src = [kind |-> "encoded", text |-> t, stripped |-> FALSE]
             \/ /\ d_in = StripPad(B64Encode(Utf8Encode(t)))
                /\ d_src = [kind |-> "encoded", text |-> t, stripped |-> TRUE]
    /\ d_pc = "start" /\ d_padded = EmptyStr /\ d_bytes = <<>>
    /\ d_result = EmptyStr /\ d_exc = "none" /\ d_calls = 0
    /\ response = [kind |-> "none", text |-> "", json |-> FALSE, message |-> EmptyObj]
    /\ pc = "idle" /\ exc = "none" /\ hi = 0
    /\ subject = "" /\ sender = "" /\ body = EmptyStr
    /\ stack = <<>> /\ ret = EmptyStr /\ visited = <<>>
    /\ outcome = "none" /\ printed = <<>>

\* lines 7-8
DecCheckEmpty ==
    /\ d_pc = "start"
    /\ IF ~Truthy(d_in)
       THEN d_result' = EmptyStr /\ d_pc' = "done"
       ELSE d_result' = d_result /\ d_pc' = "pad"
    /\ UNCHANGED <<d_src, d_in, d_padded, d_bytes, d_exc, d_calls, svars>>

\* lines 9-11
DecPad ==
    /\ d_pc = "pad"
    /\ d_padded' = Pad(d_in) /\ d_pc' = "b64"
    /\ UNCHANGED <<d_src, d_in, d_bytes, d_result, d_exc, d_calls, svars>>

\* line 12: base64.urlsafe_b64decode(data)
DecB64 ==
    /\ d_pc = "b64"
    /\ d_calls' = d_calls + 1
    /\ LET r == UrlsafeB64Decode(d_padded)
       IN IF r.exc # "none"
          THEN d_exc' = r.exc /\ d_bytes' = d_bytes /\ d_pc' = "done"
          ELSE d_exc' = d_exc /\ d_bytes' = r.bytes /\ d_pc' = "utf8"
    /\ UNCHANGED <<d_src, d_in, d_padded, d_result, svars>>

\* line 12: .decode("utf-8", errors="ignore")
DecUtf8 ==
    /\ d_pc = "utf8"
    /\ d_result' = Utf8Ignore(d_bytes, 1, <<>>) /\ d_pc' = "done"
    /\ UNCHANGED <<d_src, d_in, d_padded, d_bytes, d_exc, d_calls, svars>>

DecodeNext == DecCheckEmpty \/ DecPad \/ DecB64 \/ DecUtf8

DecodeSpec == DecodeInit /\ [][DecodeNext]_vars

(***************************************************************************)
(* Vocabulary of the properties, stated on the message itself.             *)
(***************************************************************************)
IsObject == response.kind = "object"
\* x is an object that has key, and x[key] is null
NullAt(x, key) == ~IsNone(x) /\ key \in DOMAIN x /\ IsNone(x[key])
\* x is an object that has key, and x[key] is not null
Carries(x, key) == ~IsNone(x) /\ key \in DOMAIN x /\ ~IsNone(x[key])
PayloadNull == IsNone(CurPayload)
HeadersNull == NullAt(CurPayload, "headers")
TopPartsNull == NullAt(CurPayload, "parts")
InlineBodyNull == NullAt(CurPayload, "body")
TopParts == IF Carries(CurPayload, "parts") THEN CurPayload["parts"] ELSE <<>>

\* a part that declares text/plain or text/html and carries non-empty data
Candidate(part) ==
    /\ Carries(part, "mimeType")
    /\ part["mimeType"] = "text/plain" \/ part["mimeType"] = "text/html"
    /\ Carries(part, "body")
    /\ Carries(part["body"], "data")
    /\ part["body"]["data"] # EmptyStr
Nested(part) == Carries(part, "parts") /\ part["parts"] # <<>>
\* a part that is null or whose body is null
Broken(part) == IsNone(part) \/ NullAt(part, "body")

\* the top-level payload has an inline body with non-empty data
InlineNonEmpty ==
    /\ IsObject
    /\ Carries(CurPayload, "body")
    /\ Carries(CurPayload["body"], "data")
    /\ CurPayload["body"]["data"] # EmptyStr

\* the paths of a parts list in pre-order: a part before its nested parts,
\* siblings in sequence order
RECURSIVE PreOrderFrom(_, _, _)
PreOrderFrom(parts, prefix, i) ==
    IF i > Len(parts) THEN <<>>
    ELSE <<Append(prefix, i)>>
         \o (IF Nested(parts[i])
             THEN PreOrderFrom(parts[i]["parts"], Append(prefix, i), 1)
             ELSE <<>>)
         \o PreOrderFrom(parts, prefix, i + 1)
PreOrder == PreOrderFrom(TopParts, <<>>, 1)

RECURSIVE NodeAt(_, _)
NodeAt(parts, path) ==
    IF Len(path) = 1 THEN parts[path[1]]
    ELSE NodeAt(parts[path[1]]["parts"], Tail(path))
Node(path) == NodeAt(TopParts, path)

CandidateIndexes == {k \in 1..Len(PreOrder) : Candidate(Node(PreOrder[k]))}
FirstCandidate ==
    Node(PreOrder[CHOOSE k \in CandidateIndexes : \A j \in CandidateIndexes : k <= j])

Printed == pc = "done" /\ outcome = "printed"

\* C1: when the payload has no non-empty inline body, the printed body is
\* the decoded data of the first candidate part in pre-order, whatever
\* follows it, also when that part is nested and decodes to "".
C1_FirstCandidateWins ==
    (Printed /\ IsObject /\ ~InlineNonEmpty /\ CandidateIndexes # {})
        => printed[3] = decode_base64url(FirstCandidate["body"]["data"]).str

\* name equals key once lower-cased
LowerCp(c) == IF c >= 65 /\ c <= 90 THEN c + 32 ELSE c
NameIs(h, key) ==
    LET n == IF "name" \in DOMAIN h THEN h["name"] ELSE EmptyStr
    IN Len(n) = Len(key) /\ \A i \in 1..Len(n) : LowerCp(n[i]) = key[i]
\* the value of the last header of hs named key, "" if there is none
LastValueOf(hs, key) ==
    LET idx == {i \in 1..Len(hs) : NameIs(hs[i], key)}
        last == CHOOSE i \in idx : \A j \in idx : j <= i
    IN IF idx = {} THEN ""
       ELSE IF "value" \in DOMAIN hs[last] THEN hs[last]["value"] ELSE ""

\* what a message with a non-empty inline body must end in, told from its
\* headers and that data alone
InlineExpected ==
    LET d == decode_base64url(CurPayload["body"]["data"])
    IN IF HeadersNull
       THEN [outcome |-> "generic_error", printed |-> <<"TypeError">>]
       ELSE IF \E i \in 1..Len(CurHeaders) :
                  IsNone(CurHeaders[i]) \/ NullAt(CurHeaders[i], "name")
       THEN [outcome |-> "generic_error", printed |-> <<"AttributeError">>]
       ELSE IF d.exc # "none"
       THEN [outcome |-> "generic_error", printed |-> <<d.exc>>]
       ELSE [outcome |-> "printed",
             printed |-> <<LastValueOf(CurHeaders, FromKey),
                           LastValueOf(CurHeaders, SubjectKey), d.str>>]

\* C2: a non-empty inline body decides the body: no part is ever examined,
\* and the result is a function of the headers and the inline data alone.
C2_InlineBodyWins ==
    InlineNonEmpty =>
        /\ visited = <<>> /\ stack = <<>>
        /\ pc = "done" =>
              /\ outcome = InlineExpected.outcome
              /\ printed = InlineExpected.printed
C2_Witness ==
    /\ Printed /\ InlineNonEmpty
    /\ Len(TopParts) = 2 /\ Candidate(TopParts[1])
    /\ printed[3] = <<72, 101, 108, 108, 111>>

HeaderPassDone == IsObject /\ ~PayloadNull /\ ~HeadersNull /\ hi > Len(CurHeaders)
\* C3: after the header pass, subject and sender are the values of the last
\* headers named "subject" and "from" without regard to case, "" if none.
C3_LastHeaderWins ==
    HeaderPassDone =>
        /\ subject = LastValueOf(CurHeaders, SubjectKey)
        /\ sender = LastValueOf(CurHeaders, FromKey)
C3_Witness ==
    /\ HeaderPassDone /\ Len(CurHeaders) = 2
    /\ Get(CurHeaders[1], "name", EmptyStr) = SubjectKey
    /\ Get(CurHeaders[2], "name", EmptyStr) = <<83, 85, 66, 74, 69, 67, 84>>
    /\ Get(CurHeaders[1], "value", "") = "v1"
    /\ subject = "v2" /\ sender = ""

\* the data string x carries in its body, None if it carries none
DataOf(x) ==
    IF Carries(x, "body") /\ Carries(x["body"], "data") THEN x["body"]["data"] ELSE None
\* every data string the message carries, inline or in a part
AllData ==
    {DataOf(CurPayload)} \cup {DataOf(Node(PreOrder[k])) : k \in 1..Len(PreOrder)}
\* a null stands where the code reads an object or a list
NullObject ==
    \/ PayloadNull \/ InlineBodyNull
    \/ \E k \in 1..Len(PreOrder) : Broken(Node(PreOrder[k]))
    \/ /\ ~PayloadNull /\ ~HeadersNull
       /\ \E i \in 1..Len(CurHeaders) :
             IsNone(CurHeaders[i]) \/ NullAt(CurHeaders[i], "name")
NullList == HeadersNull \/ TopPartsNull
\* C4: absent fields never raise.  An exception comes only from a value
\* that is present (a null payload, header, header name, body or part; null
\* headers or parts; data that is not base64), every other run prints a
\* 3-tuple, and a message with no header and no usable data prints
\* ("", "", "").
C4_AbsentFieldsAreEmpty ==
    IsObject =>
        /\ exc # "none" =>
              \/ exc = "AttributeError" /\ NullObject
              \/ exc = "TypeError" /\ NullList
              \/ /\ exc \in {"binascii.Error", "ValueError"}
                 /\ \E d \in AllData : decode_base64url(d).exc = exc
        /\ (pc = "done" /\ exc = "none") => (outcome = "printed" /\ Len(printed) = 3)
        /\ (pc = "done" /\ ~NullObject /\ ~NullList /\ Len(CurHeaders) = 0
               /\ ~InlineNonEmpty /\ CandidateIndexes = {})
              => (outcome = "printed" /\ printed = <<"", "", EmptyStr>>)
C4_Witness ==
    /\ Printed /\ IsObject /\ printed = <<"", "", EmptyStr>>
    /\ "headers" \notin DOMAIN CurPayload /\ "body" \notin DOMAIN CurPayload
    /\ Len(visited) = 1
    /\ "mimeType" \notin DOMAIN Node(visited[1])
    /\ PartData(Node(visited[1])) = DataHi

\* the bytes are valid UTF-8 and the text is not JSON
TextNotJSON == response.kind # "badutf8" /\ ~response.json
\* C6 as stated: the JSON report is given if and only if the bytes are valid
\* UTF-8 but not valid JSON.
C6_JsonErrorIffNotJSON ==
    pc = "done" => (outcome = "json_error" <=> TextNotJSON)
\* C6, amended: the script ends in exactly one of three reports and never
\* with an exception in flight; the JSON report, which shows the raw text,
\* is given exactly for text that json.loads rejects, which is never JSON;
\* text that is not JSON but that json.loads parses (NaN, Infinity,
\* -Infinity) is handled as the value parsed, and JSON that json.loads
\* gives up on for its size gets the generic report.
C6_ThreeOutcomes ==
    /\ pc = "raised" => ENABLED (ExceptJSONDecodeError \/ ExceptException)
    /\ pc = "print" => ENABLED PrintFields
    /\ pc = "done" =>
          /\ outcome \in {"printed", "json_error", "generic_error"}
          /\ outcome = "json_error" <=> response.kind = "badjson"
          /\ outcome = "json_error" => TextNotJSON
          /\ (TextNotJSON /\ response.kind = "object") => outcome # "json_error"
          /\ (TextNotJSON /\ response.kind = "nonobject")
                => (outcome = "generic_error" /\ exc = "AttributeError")
          /\ response.kind \in {"hugeint", "deepjson"} => outcome = "generic_error"
          /\ outcome = "json_error" => printed = <<response.text>>
          /\ outcome = "printed" <=> exc = "none"
          /\ outcome = "printed" => Len(printed) = 3
          /\ outcome = "generic_error" => printed = <<exc>>
C6_Witness ==
    /\ pc = "done" /\ outcome = "json_error" /\ printed = <<"{oops">>
    /\ TextNotJSON
    /\ exc = "JSONDecodeError"

IsProperPrefix(p, q) == Len(p) < Len(q) /\ SubSeq(q, 1, Len(p)) = p
VisitedNode(k) == Node(visited[k])
\* the part decodes to a non-empty str
YieldsText(part) ==
    /\ decode_base64url(part["body"]["data"]).exc = "none"
    /\ decode_base64url(part["body"]["data"]).str # EmptyStr
Siblings(path) ==
    IF Len(path) = 1 THEN TopParts
    ELSE Node(SubSeq(path, 1, Len(path) - 1))["parts"]
NextSibling(path) == [path EXCEPT ![Len(path)] = @ + 1]
WalkOver == pc = "print" \/ Printed
\* C10: a part that does not match and has nested parts is followed at once
\* by its first nested part; the nested parts of a matching part are never
\* examined; a non-empty result ends the walk on the spot and is the body;
\* after a part whose walk came back empty the next sibling is examined.
C10_WalkOrder ==
    IsObject =>
        /\ \A k \in 1..Len(visited) :
              (~Candidate(VisitedNode(k)) /\ Nested(VisitedNode(k))) =>
                 /\ k < Len(visited) => visited[k + 1] = Append(visited[k], 1)
                 /\ WalkOver => k < Len(visited)
        /\ \A k \in 1..Len(visited) : \A j \in 1..Len(visited) :
              Candidate(VisitedNode(k)) => ~IsProperPrefix(visited[k], visited[j])
        /\ \A k \in 1..Len(visited) :
              (Candidate(VisitedNode(k)) /\ YieldsText(VisitedNode(k))) =>
                 /\ k = Len(visited)
                 /\ WalkOver =>
                       body = decode_base64url(VisitedNode(k)["body"]["data"]).str
        /\ WalkOver =>
              \A k \in 1..Len(visited) :
                 ( /\ ~Candidate(VisitedNode(k))
                   /\ visited[k][Len(visited[k])] < Len(Siblings(visited[k]))
                   /\ ~\E j \in 1..Len(visited) :
                          /\ IsProperPrefix(visited[k], visited[j])
                          /\ Candidate(VisitedNode(j)) /\ YieldsText(VisitedNode(j)) )
                 => \E m \in (k + 1)..Len(visited) :
                       /\ visited[m] = NextSibling(visited[k])
                       /\ \A j \in (k + 1)..(m - 1) :
                             IsProperPrefix(visited[k], visited[j])
C10_Witness ==
    /\ Printed /\ Len(TopParts) = 2
    /\ visited = << <<1>>, <<1, 1>> >>
    /\ ~Candidate(TopParts[1]) /\ Candidate(TopParts[2])
    /\ body = <<72>>

(***************************************************************************)
(* Properties of decode_base64url, under DecodeSpec.                       *)
(***************************************************************************)
\* C5: an input whose length is 1 more than a multiple of 4 never makes
\* decode_base64url raise.
C5_MalformedNeverRaises ==
    (d_pc = "done" /\ d_in # None /\ Len(d_in) % 4 = 1) => d_exc = "none"

\* C7: decoding the URL-safe base64 encoding of a text gives the text back,
\* with the "=" padding kept or stripped.
C7_RoundTrip ==
    (d_src.kind = "encoded" /\ d_pc = "done")
        => (d_exc = "none" /\ d_result = d_src.text)
C7_Witness ==
    /\ d_pc = "done" /\ d_src.kind = "encoded" /\ d_src.stripped
    /\ d_src.text = <<128512>> /\ Len(d_in) = 6
    /\ d_result = <<128512>>

\* C8: a non-empty input of length n is padded with (4 - n mod 4) mod 4
\* "=" characters, to a length that is a multiple of 4.
C8_Padding ==
    (d_pc \in {"b64", "utf8"} \/ (d_pc = "done" /\ Truthy(d_in))) =>
        LET n == Len(d_in)
            k == (4 - (n % 4)) % 4
        IN /\ Len(d_padded) = n + k
           /\ SubSeq(d_padded, 1, n) = d_in
           /\ \A i \in (n + 1)..(n + k) : d_padded[i] = 61
           /\ Len(d_padded) % 4 = 0
           /\ n % 4 = 0 => d_padded = d_in
           /\ n % 4 = 2 => Len(d_padded) = n + 2
           /\ n % 4 = 3 => Len(d_padded) = n + 1
C8_Witness ==
    /\ d_pc = "b64" /\ d_in = DataHello
    /\ d_padded = Append(DataHello, 61)

\* C9: the empty string and None give "" with no error and no base64 decode.
C9_EmptyInput ==
    (d_pc # "idle" /\ (d_in = None \/ d_in = EmptyStr)) =>
        /\ d_calls = 0 /\ d_exc = "none"
        /\ d_pc \in {"start", "done"}
        /\ d_pc = "start" => ENABLED DecCheckEmpty
        /\ d_pc = "done" => d_result = EmptyStr
C9_Witness ==
    /\ d_pc = "done" /\ d_in = None /\ d_result = EmptyStr /\ d_calls = 0

====
